---- MODULE Spec2Model ----
(***************************************************************************)
(* fsdterm: the terminal emulation engine.                                 *)
(*                                                                         *)
(* Console (src/console.rs) owns two screen buffers, the index of the      *)
(* active one and the accumulator of the escape sequence in progress;      *)
(* put_char feeds it one byte of the shell's output.  The screen buffer    *)
(* operations are those of src/main.rs (cursor, buffer, cursor_inc,        *)
(* cursor_newline, clear_line, scroll_up, backspace, set_char,             *)
(* move_cursor, erase_line).  A Rust panic (failed unwrap, index out of    *)
(* range, checked arithmetic overflow) ends the process: `aborted`.        *)
(***************************************************************************)
EXTENDS Integers, Sequences, FiniteSets, TLC

\* ------------------------------------------------------------------ bounds
\* The grid is size = (W, H) cells (the program runs 80 x 24).
W == 3
H == 3
\* Number of bytes the shell sends in one run of free input.
MaxFeed == 5

\* ------------------------------------------------------------------- bytes
NUL == 0
BEL == 7
BS == 8
LF == 10
CR == 13
ESC == 27
SP == 32

Byte == 0..255

\* ------------------------------------------------------- 32-bit arithmetic
I32Max == 2147483647
I32Min == -I32Max - 1

\* a + b leaves i32: a debug build panics there, a release build wraps.
AddOverflows(a, b) ==
    \/ b > 0 /\ a > I32Max - b
    \/ b < 0 /\ a < I32Min - b

\* a.wrapping_add(b), computed without leaving 32 bits.
WrapAdd(a, b) ==
    IF b > 0 /\ a > I32Max - b THEN (a + I32Min) + (b + I32Min)
    ELSE IF b < 0 /\ a < I32Min - b THEN (a - I32Min) + (b - I32Min)
    ELSE a + b

\* a * n for a small n >= 0, as n additions.
RECURSIVE MulOverflows(_, _)
MulOverflows(a, n) ==
    IF n <= 1 THEN FALSE
    ELSE MulOverflows(a, n - 1) \/ AddOverflows(a * (n - 1), a)

RECURSIVE WrapMul(_, _)
WrapMul(a, n) ==
    IF n = 0 THEN 0 ELSE WrapAdd(WrapMul(a, n - 1), a)

Min(a, b) == IF a <= b THEN a ELSE b
Max(a, b) == IF a >= b THEN a ELSE b

\* --------------------------------------------------------- ScreenBuffer
\* A screen buffer is [cursor |-> <<x, y>>, buffer |-> [0..W*H-1 -> Byte],
\* panic |-> BOOLEAN]; panic records that an operation on it panicked.
Cells == 0..(W * H - 1)

new == [cursor |-> <<0, 0>>, buffer |-> [i \in Cells |-> NUL], panic |-> FALSE]

\* (x + y * size.0) as usize, used as an index of buffer: -1 when the
\* indexing panics (out of range, or an overflow the build checks).
\* oc: the build checks arithmetic overflow (debug) or wraps (release).
Index(x, y, oc) ==
    LET m == WrapMul(y, W)
        v == WrapAdd(x, m)
    IN  IF oc /\ (MulOverflows(y, W) \/ AddOverflows(x, m)) THEN -1
        ELSE IF 0 <= v /\ v < W * H THEN v
        ELSE -1

\* buffer[idx] = ch for every idx of idxs, in the loop's order: the first
\* index out of range panics.
SetCells(sb, idxs, ch) ==
    IF -1 \in idxs
    THEN [sb EXCEPT !.panic = TRUE]
    ELSE [sb EXCEPT !.buffer = [i \in Cells |-> IF i \in idxs THEN ch ELSE sb.buffer[i]]]

\* Mutant: the bottom row is left as scroll_up left it.
clear_line_skipped(sb, oc) == sb

clear_line(sb, oc) ==
    SetCells(sb, {Index(x, sb.cursor[2], oc) : x \in 0..(W - 1)}, NUL)

\* Mutant: the rows are copied from the bottom up, so that every row ends
\* as a copy of the last one.
scroll_up_smear(sb) ==
    [sb EXCEPT !.buffer = [i \in Cells |-> sb.buffer[W * (H - 1) + (i % W)]]]

\* does not move cursor
scroll_up(sb) ==
    [sb EXCEPT !.buffer = [i \in Cells |->
        IF i < W * (H - 1) THEN sb.buffer[i + W] ELSE sb.buffer[i]]]

cursor_newline(sb, oc) ==
    LET s0 == [sb EXCEPT !.cursor[1] = 0]
    IN  IF s0.cursor[2] < H - 1
        THEN [s0 EXCEPT !.cursor[2] = s0.cursor[2] + 1]
        ELSE clear_line(scroll_up(s0), oc)

\* Mutant: the last column is tested with <=, so the cursor leaves the row.
cursor_inc_no_wrap(sb, oc) ==
    IF sb.cursor[1] <= W - 1
    THEN [sb EXCEPT !.cursor[1] = sb.cursor[1] + 1]
    ELSE cursor_newline(sb, oc)

cursor_inc(sb, oc) ==
    IF sb.cursor[1] < W - 1
    THEN [sb EXCEPT !.cursor[1] = sb.cursor[1] + 1]
    ELSE cursor_newline(sb, oc)

\* not set char
backspace(sb) ==
    IF sb.cursor[1] > 0
    THEN [sb EXCEPT !.cursor[1] = sb.cursor[1] - 1]
    ELSE sb

set_char(sb, ch, inc, oc) ==
    IF ch = LF THEN cursor_newline(sb, oc)
    ELSE IF ch = BEL THEN sb
    ELSE IF ch = BS THEN backspace(sb)
    ELSE LET s1 == SetCells(sb, {Index(sb.cursor[1], sb.cursor[2], oc)}, ch)
         IN  IF s1.panic \/ ~inc THEN s1 ELSE cursor_inc(s1, oc)

\* Mutant: a relative move is clamped at the right and bottom edges only.
move_cursor_no_floor(sb, x, y, abs, oc) ==
    IF abs
    THEN [sb EXCEPT !.cursor = <<x, y>>]
    ELSE LET nx == WrapAdd(sb.cursor[1], x)
             ny == WrapAdd(sb.cursor[2], y)
         IN  IF oc /\ (AddOverflows(sb.cursor[1], x) \/ AddOverflows(sb.cursor[2], y))
             THEN [sb EXCEPT !.panic = TRUE]
             ELSE [sb EXCEPT !.cursor = <<Min(nx, W - 1), Min(ny, H - 1)>>]

move_cursor(sb, x, y, abs, oc) ==
    IF abs
    THEN [sb EXCEPT !.cursor = <<x, y>>]
    ELSE LET nx == WrapAdd(sb.cursor[1], x)
             ny == WrapAdd(sb.cursor[2], y)
         IN  IF oc /\ (AddOverflows(sb.cursor[1], x) \/ AddOverflows(sb.cursor[2], y))
             THEN [sb EXCEPT !.panic = TRUE]
             ELSE [sb EXCEPT !.cursor =
                      <<Max(Min(nx, W - 1), 0), Max(Min(ny, H - 1), 0)>>]

\* Mutant: parameter 1 stops before the cursor's cell.
erase_line_before(sb, param, oc) ==
    LET cx == sb.cursor[1]
        cy == sb.cursor[2]
    IN  IF param = 0 THEN SetCells(sb, {Index(i, cy, oc) : i \in cx..(W - 1)}, SP)
        ELSE IF param = 1 THEN SetCells(sb, {Index(i, cy, oc) : i \in 0..(Min(cx, W * H) - 1)}, SP)
        ELSE IF param = 2 THEN SetCells(sb, {Index(i, cy, oc) : i \in 0..(W - 1)}, SP)
        ELSE sb

\* match csi definition
erase_line(sb, param, oc) ==
    LET cx == sb.cursor[1]
        cy == sb.cursor[2]
    IN  IF param = 0 THEN SetCells(sb, {Index(i, cy, oc) : i \in cx..(W - 1)}, SP)
        \* 0..=cx: past W * H every index is out of range already
        ELSE IF param = 1 THEN SetCells(sb, {Index(i, cy, oc) : i \in 0..Min(cx, W * H)}, SP)
        ELSE IF param = 2 THEN SetCells(sb, {Index(i, cy, oc) : i \in 0..(W - 1)}, SP)
        ELSE sb

\* erase_display and report_cursor are called by console.rs; their bodies
\* (screen_buffer.rs) are not in the sources and follow the specification.
erase_display(sb, param) ==
    LET cx == sb.cursor[1]
        cy == sb.cursor[2]
        hit(i) == LET x == i % W
                      y == i \div W
                  IN  \/ param = 2
                      \/ param = 0 /\ (y > cy \/ (y = cy /\ x >= cx))
                      \/ param = 1 /\ (y < cy \/ (y = cy /\ x <= cx))
    IN  [sb EXCEPT !.buffer = [i \in Cells |-> IF hit(i) THEN SP ELSE sb.buffer[i]]]

\* Decimal ASCII digits of n, as format!("{}") writes them.
RECURSIVE Dec(_)
Dec(n) ==
    IF n < 0 THEN <<45>> \o Dec(-n)
    ELSE IF n < 10 THEN <<48 + n>>
    ELSE Dec(n \div 10) \o <<48 + (n % 10)>>

None == <<>>

report_cursor(sb, param) ==
    IF param = 6
    THEN <<ESC, 91>> \o Dec(sb.cursor[2] + 1) \o <<59>> \o Dec(sb.cursor[1] + 1) \o <<82>>
    ELSE None

\* ------------------------------------------------------ string conversions
IsCont(b) == 128 <= b /\ b <= 191

\* String::from_utf8(v).is_ok(): v is well-formed UTF-8.
RECURSIVE ValidUtf8(_)
ValidUtf8(s) ==
    IF s = <<>> THEN TRUE
    ELSE LET b == s[1]
             n == Len(s)
             rest(k) == ValidUtf8(SubSeq(s, k + 1, n))
         IN  IF b < 128 THEN rest(1)
             ELSE IF 194 <= b /\ b <= 223
                  THEN n >= 2 /\ IsCont(s[2]) /\ rest(2)
             ELSE IF 224 <= b /\ b <= 239
                  THEN /\ n >= 3
                       /\ IsCont(s[2]) /\ IsCont(s[3])
                       /\ (b = 224 => s[2] >= 160)
                       /\ (b = 237 => s[2] <= 159)
                       /\ rest(3)
             ELSE IF 240 <= b /\ b <= 244
                  THEN /\ n >= 4
                       /\ IsCont(s[2]) /\ IsCont(s[3]) /\ IsCont(s[4])
                       /\ (b = 240 => s[2] >= 144)
                       /\ (b = 244 => s[2] <= 143)
                       /\ rest(4)
             ELSE FALSE

IsDigit(b) == 48 <= b /\ b <= 57

\* The value of the digits s, accumulated with the sign sg (1 or -1) as
\* checked 32-bit arithmetic does: [ok, val], ok false on overflow.
RECURSIVE DecVal(_, _)
DecVal(s, sg) ==
    IF s = <<>> THEN [ok |-> TRUE, val |-> 0]
    ELSE LET p == DecVal(SubSeq(s, 1, Len(s) - 1), sg)
             d == s[Len(s)] - 48
         IN  IF ~p.ok THEN p
             ELSE IF sg = 1 /\ p.val > (I32Max - d) \div 10
                  THEN [ok |-> FALSE, val |-> 0]
             ELSE IF sg = -1 /\ p.val < (I32Min + d + 9) \div 10
                  THEN [ok |-> FALSE, val |-> 0]
             ELSE [ok |-> TRUE, val |-> 10 * p.val + sg * d]

\* str::parse::<i32>(): [ok, val]; an optional sign, then one or more
\* digits, the value within i32.
ParseI32(s) ==
    LET signed == s # <<>> /\ s[1] \in {43, 45}
        digits == IF signed THEN Tail(s) ELSE s
    IN  IF digits = <<>> \/ (\E i \in 1..Len(digits) : ~IsDigit(digits[i]))
        THEN [ok |-> FALSE, val |-> 0]
        ELSE DecVal(digits, IF signed /\ s[1] = 45 THEN -1 ELSE 1)

\* .parse::<i32>().unwrap_or(d)
ParseOr(s, d) == IF ParseI32(s).ok THEN ParseI32(s).val ELSE d

\* str::split(";"): the fields between the separators, at least one.
RECURSIVE Split(_)
Split(s) ==
    IF \A i \in 1..Len(s) : s[i] # 59 THEN <<s>>
    ELSE LET i == CHOOSE k \in 1..Len(s) :
                     s[k] = 59 /\ \A j \in 1..(k - 1) : s[j] # 59
         IN  <<SubSeq(s, 1, i - 1)>> \o Split(SubSeq(s, i + 1, Len(s)))

IsParam(b) == 48 <= b /\ b <= 63
IsFinal(b) == 64 <= b /\ b <= 127

\* ---------------------------------------------------------------- Console
\* A console value is [csi_buf, screen, sid]; screen is indexed by 0 and 1.
\* proc_csi and put_char return it with the call's result: report (the
\* Option<Vec<u8>> returned, None or the bytes) and panic.

\* Mutant: the result is stored in both screens.
OnScreen_mirrored(c, sb) ==
    [csi_buf |-> c.csi_buf,
     screen |-> [s \in 0..1 |-> [sb EXCEPT !.panic = FALSE]],
     sid |-> c.sid,
     report |-> None,
     panic |-> sb.panic]

\* self.screen[self.sid] = sb, the call panicking when sb.panic.
OnScreen(c, sb) ==
    [csi_buf |-> c.csi_buf,
     screen |-> [c.screen EXCEPT ![c.sid] = [sb EXCEPT !.panic = FALSE]],
     sid |-> c.sid,
     report |-> None,
     panic |-> sb.panic]

Returned(c, r) ==
    [csi_buf |-> c.csi_buf, screen |-> c.screen, sid |-> c.sid,
     report |-> r, panic |-> FALSE]

Panicked(c) ==
    [csi_buf |-> c.csi_buf, screen |-> c.screen, sid |-> c.sid,
     report |-> None, panic |-> TRUE]

\* The loop of proc_csi over csi_buf[1..]: the parameter bytes in order,
\* and the last byte of 0x40..=0x7F (0 when there is none).
ParamOf(buf) == SelectSeq(Tail(buf), IsParam)

FinalOf(buf) ==
    LET f == SelectSeq(Tail(buf), IsFinal)
    IN  IF f = <<>> THEN 0 ELSE f[Len(f)]

\* Some(b'H'): ansi coodinate is 1..=n, not 0..n
cup(c, param, oc) ==
    LET fields == Split(param)
        params == [i \in 1..Len(fields) |-> ParseOr(fields[i], 1) - 1]
        sb == c.screen[c.sid]
    IN  IF Len(params) = 1
        THEN OnScreen(c, move_cursor(sb, 1, 1, TRUE, oc))
        ELSE OnScreen(c, move_cursor(sb, params[2], params[1], TRUE, oc))

\* "\x1b[?1049h" and "\x1b[?1049l": enter and leave the alternate screen.
EnterAlt == <<ESC, 91, 63, 49, 48, 52, 57, 104>>
LeaveAlt == <<ESC, 91, 63, 49, 48, 52, 57, 108>>

\* Mutant: any 'h' or 'l' sequence switches the screen.
set_mode_any(c, seq, to) ==
    [csi_buf |-> c.csi_buf, screen |-> c.screen, sid |-> to,
     report |-> None, panic |-> FALSE]

\* Some(b'h') / Some(b'l'): the alternate screen, by literal match.
set_mode(c, seq, to) ==
    IF c.csi_buf = seq
    THEN [csi_buf |-> c.csi_buf, screen |-> c.screen, sid |-> to,
          report |-> None, panic |-> FALSE]
    ELSE Returned(c, None)

\* Mutant: the report's parameter defaults to 6 instead of 0.
dsr_default_six(c, param) ==
    Returned(c, report_cursor(c.screen[c.sid], ParseOr(param, 6)))

\* Some(b'n'): the cursor report, returned to the caller.
dsr(c, param) == Returned(c, report_cursor(c.screen[c.sid], ParseOr(param, 0)))

\* Mutant: 'm' and the final bytes without an arm act as 'H'.
dispatch_rest_homes(c, final, param, oc) ==
    LET sb == c.screen[c.sid]
    IN  CASE final = 68 -> OnScreen(c, move_cursor(sb, -ParseOr(param, 1), 0, FALSE, oc))
          [] final = 67 -> OnScreen(c, move_cursor(sb, ParseOr(param, 1), 0, FALSE, oc))
          [] final = 65 -> OnScreen(c, move_cursor(sb, 0, -ParseOr(param, 1), FALSE, oc))
          [] final = 66 -> OnScreen(c, move_cursor(sb, 0, ParseOr(param, 1), FALSE, oc))
          [] final = 74 -> OnScreen(c, erase_display(sb, ParseOr(param, 0)))
          [] final = 75 -> OnScreen(c, erase_line(sb, ParseOr(param, 0), oc))
          [] final = 110 -> dsr(c, param)
          [] final = 104 -> set_mode(c, EnterAlt, 1)
          [] final = 108 -> set_mode(c, LeaveAlt, 0)
          [] OTHER -> cup(c, param, oc)

\* The match on final_byte.
dispatch(c, final, param, oc) ==
    LET sb == c.screen[c.sid]
    IN  CASE final = 68 -> OnScreen(c, move_cursor(sb, -ParseOr(param, 1), 0, FALSE, oc))
          [] final = 67 -> OnScreen(c, move_cursor(sb, ParseOr(param, 1), 0, FALSE, oc))
          [] final = 65 -> OnScreen(c, move_cursor(sb, 0, -ParseOr(param, 1), FALSE, oc))
          [] final = 66 -> OnScreen(c, move_cursor(sb, 0, ParseOr(param, 1), FALSE, oc))
          [] final = 72 -> cup(c, param, oc)
          [] final = 74 -> OnScreen(c, erase_display(sb, ParseOr(param, 0)))
          [] final = 75 -> OnScreen(c, erase_line(sb, ParseOr(param, 0), oc))
          [] final = 109 -> Returned(c, None)
          [] final = 110 -> dsr(c, param)
          [] final = 104 -> set_mode(c, EnterAlt, 1)
          [] final = 108 -> set_mode(c, LeaveAlt, 0)
          [] OTHER -> Returned(c, None)

\* Mutant: the accumulator is not cleared after the dispatch.
clear_buf_skipped(r) == r

\* self.csi_buf.clear(); report
clear_buf(r) == [r EXCEPT !.csi_buf = <<>>]

proc_csi(c, oc) ==
    IF ~ValidUtf8(c.csi_buf) THEN Panicked(c)
    ELSE IF c.csi_buf = <<>> THEN Returned(c, None)
    ELSE IF c.csi_buf[1] # ESC THEN Returned(c, None)
    ELSE LET r == dispatch(c, FinalOf(c.csi_buf), ParamOf(c.csi_buf), oc)
         IN  IF r.panic THEN r ELSE clear_buf(r)

push(c, ch) == [c EXCEPT !.csi_buf = Append(c.csi_buf, ch)]

\* Mutant: the test of the accumulator is lost.
in_sequence_always(c) == TRUE

\* !self.csi_buf.is_empty()
in_sequence(c) == c.csi_buf # <<>>

\* Mutant: ESC restarts the accumulator only when it is empty; inside a
\* sequence it is pushed like any byte below 0x40.
put_char_esc_pushed(c, ch, oc) ==
    IF ch = ESC /\ ~in_sequence(c) THEN Returned([c EXCEPT !.csi_buf = <<ESC>>], None)
    ELSE IF in_sequence(c)
    THEN IF Len(c.csi_buf) = 1 /\ ch = 91 THEN Returned(push(c, ch), None)
         ELSE IF ch >= 64 /\ ch < 128 THEN proc_csi(push(c, ch), oc)
         ELSE Returned(push(c, ch), None)
    ELSE IF ch = CR THEN OnScreen(c, set_char(c.screen[c.sid], ch, FALSE, oc))
    ELSE OnScreen(c, set_char(c.screen[c.sid], ch, TRUE, oc))

put_char(c, ch, oc) ==
    IF ch = ESC THEN Returned([c EXCEPT !.csi_buf = <<ESC>>], None)
    ELSE IF in_sequence(c)
    THEN IF Len(c.csi_buf) = 1 /\ ch = 91 THEN Returned(push(c, ch), None)
         ELSE IF ch >= 64 /\ ch < 128 THEN proc_csi(push(c, ch), oc)
         ELSE Returned(push(c, ch), None)
    ELSE IF ch = CR THEN OnScreen(c, set_char(c.screen[c.sid], ch, FALSE, oc))
    ELSE OnScreen(c, set_char(c.screen[c.sid], ch, TRUE, oc))

\* ------------------------------------------------------------------ state
VARIABLES
    csi_buf,    \* Console.csi_buf
    screen,     \* Console.screen: [0..1 -> [cursor, buffer]]
    sid,        \* Console.sid
    report,     \* what the last put_char returned
    aborted,    \* the process panicked
    fed,        \* the bytes put_char was called with, in order
    pty,        \* the bytes written by the shell and not read yet
    start,      \* the two screens at the start of the run
    frame,      \* what the last render drew, and the bytes then left to read
    shift,      \* a shift key is held
    ctrl,       \* a ctrl key is held
    typed       \* the last key pressed and the bytes written for it

vars == <<csi_buf, screen, sid, report, aborted, fed, pty, start,
          frame, shift, ctrl, typed>>

Buf(sb) == [cursor |-> sb.cursor, buffer |-> sb.buffer]

\* Console::new
Fresh == [s \in 0..1 |-> Buf(new)]

Init ==
    /\ csi_buf = <<>>
    /\ screen = Fresh
    /\ sid = 0
    /\ report = None
    /\ aborted = FALSE
    /\ fed = <<>>
    /\ pty = <<>>
    /\ start = Fresh
    /\ frame = None
    /\ shift = FALSE
    /\ ctrl = FALSE
    /\ typed = None

\* console.put_char(ch): one byte of the shell's output.  A panic ends the
\* process: nothing of the call's partial effects is observed.
PutChar(ch) ==
    /\ ~aborted
    /\ \E oc \in BOOLEAN :
         LET c == [csi_buf |-> csi_buf,
                   screen |-> [s \in 0..1 |-> [cursor |-> screen[s].cursor,
                                               buffer |-> screen[s].buffer,
                                               panic |-> FALSE]],
                   sid |-> sid]
             r == put_char(c, ch, oc)
         IN  IF r.panic
             THEN /\ aborted' = TRUE
                  /\ report' = None
                  /\ UNCHANGED <<csi_buf, screen, sid>>
             ELSE /\ aborted' = FALSE
                  /\ report' = r.report
                  /\ csi_buf' = r.csi_buf
                  /\ screen' = [s \in 0..1 |-> Buf(r.screen[s])]
                  /\ sid' = r.sid
    /\ fed' = Append(fed, ch)

\* console.render() and canvas.present(), which follow put_char in the same
\* iteration of the loop: the active screen is drawn while the bytes after
\* the one just read are still in the PTY.
Render ==
    frame' = IF aborted' THEN frame
             ELSE <<[buffer |-> screen'[sid'].buffer,
                     cursor |-> screen'[sid'].cursor,
                     left |-> Len(pty')]>>

\* Free input: the shell may send any byte of Alphabet next: ESC, '[', a
\* digit, ';', the final bytes 'H' and DEL, 'X', LF and a byte that is not
\* UTF-8 on its own.
Alphabet == {ESC, 91, 57, 59, 72, 88, LF, 127, 128}

Feed(ch) ==
    /\ Len(fed) < MaxFeed
    /\ PutChar(ch)
    /\ UNCHANGED <<pty, start, shift, ctrl, typed>>
    /\ Render

Next == \E ch \in Alphabet : Feed(ch)

Spec == Init /\ [][Next]_vars

\* Scripted input: the shell has written one of Scripts to the PTY, and the
\* console starts from one of Starts, screens the program reaches by
\* printing text and positioning the cursor inside the grid.
Marked == [i \in Cells |-> 97 + i]

Starts ==
    {[s \in 0..1 |-> IF s = 0 THEN [cursor |-> <<x, y>>, buffer |-> b] ELSE Buf(new)] :
        x \in 0..(W - 1), y \in 0..(H - 1), b \in {new.buffer, Marked}}

\* The decimal digits of a count below 100, as a program writes them.
Digits(n) == IF n < 10 THEN <<48 + n>> ELSE <<48 + (n \div 10), 48 + (n % 10)>>

\* CSI sequences the console has no action for: SGR, a function key's '~',
\* a sequence with an intermediate space, 'X', the cursor's visibility.
Unhandled ==
    {<<ESC, 91, 109>>, <<ESC, 91, 49, 59, 51, 49, 109>>, <<ESC, 91, 53, 126>>,
     <<ESC, 91, 50, 32, 113>>, <<ESC, 91, 50, 88>>, <<ESC, 91, 64>>,
     <<ESC, 91, 63, 50, 53, 108>>, <<ESC, 91, 63, 50, 53, 104>>}

\* The digits of i32::MAX, 2147483647, and of the next number, which does
\* not parse as an i32.
MaxDigits == <<50, 49, 52, 55, 52, 56, 51, 54, 52, 55>>
OverDigits == <<50, 49, 52, 55, 52, 56, 51, 54, 52, 56>>

Scripts ==
    {<<88, LF>>, <<88, 89>>, <<LF, 88>>, <<110, 88>>}
    \cup {<<ESC, 91, 48 + r, 59, 48 + c, F, 88>> :
            r \in 1..(H + 1), c \in 1..(W + 1), F \in {72, 102}}
    \cup {<<ESC, 91, 72, 88>>, <<ESC, 91, 50, 72, 88>>, <<ESC, 91, 59, 72, 88>>}
    \cup {<<ESC, 91, 54, 110>>, <<ESC, 91, 53, 110>>, <<ESC, 91, 110>>,
          <<ESC, 91, 48, 54, 110>>, <<ESC, 91, 54, 59, 110>>,
          <<ESC, 91, 63, 54, 110>>, <<ESC, 54, 110>>, <<ESC, 91, 54, 109>>}
    \cup {EnterAlt \o <<88>>, EnterAlt \o <<88>> \o LeaveAlt \o <<89>>,
          EnterAlt \o <<ESC, 91, 63, 49, 108, 88, LF>> \o LeaveAlt,
          LeaveAlt \o <<88>>, <<ESC, 91, 63, 49, 104, 88>>,
          <<ESC, 91, 49, 48, 52, 57, 104, 88>>,
          <<ESC, 91, 63, 49, 48, 52, 57, 59, 104, 88>>}
    \cup {<<ESC, 91, 75>>, <<ESC, 91, 59, 75>>}
    \cup {<<ESC, 91, 48 + p, 75>> : p \in 0..3}
    \cup {<<ESC, 91, 53, 59, 51, 65>>, <<ESC, 91, 50, 59, 49, 67>>}
    \cup {<<ESC, 65, 88>>, <<ESC, 57, 88>>, <<ESC, 99, 88>>}
    \cup {q \o <<88>> : q \in Unhandled}
    \cup {<<ESC, 91>> \o ds \o <<F>> : ds \in {MaxDigits, OverDigits}, F \in {66, 67}}
    \cup {<<CR, 88>>, <<88, CR, 89>>, <<BS, 88>>, <<88, BS, 89>>, <<BEL, 88>>}
    \cup {<<ESC, 91>> \o Digits(n) \o <<F>> :
            n \in 1..(2 * Max(W, H)), F \in {65, 66, 67, 68}}

InitPty ==
    /\ csi_buf = <<>>
    /\ start \in Starts
    /\ screen = start
    /\ sid = 0
    /\ report = None
    /\ aborted = FALSE
    /\ fed = <<>>
    /\ pty \in Scripts
    /\ frame = None
    /\ shift = FALSE
    /\ ctrl = FALSE
    /\ typed = None

\* One iteration of the loop with the PTY readable: it reads one byte,
\* gives it to put_char, renders and presents.
Drain ==
    /\ pty # <<>>
    /\ PutChar(Head(pty))
    /\ pty' = Tail(pty)
    /\ Render
    /\ UNCHANGED <<start, shift, ctrl, typed>>

SpecPty == InitPty /\ [][Drain]_vars

\* --------------------------------------------------------------- keyboard
set_shift(ch, sh) ==
    IF ~sh THEN ch
    ELSE CASE 97 <= ch /\ ch <= 122 -> ch - 97 + 65
           [] ch = 49 -> 33
           [] ch = 50 -> 64
           [] ch = 51 -> 35
           [] ch = 52 -> 36
           [] ch = 53 -> 37
           [] ch = 54 -> 94
           [] ch = 55 -> 38
           [] ch = 56 -> 42
           [] ch = 57 -> 40
           [] ch = 48 -> 41
           [] ch = 96 -> 126
           [] ch = 44 -> 60
           [] ch = 46 -> 62
           [] ch = 47 -> 63
           [] ch = 92 -> 124
           [] OTHER -> ch

\* The match on the keycode of a KeyDown event: the bytes of each key that
\* has some.
Keymap ==
    [A |-> <<97>>, B |-> <<98>>, C |-> <<99>>, D |-> <<100>>, E |-> <<101>>,
     F |-> <<102>>, G |-> <<103>>, H |-> <<104>>, I |-> <<105>>, J |-> <<106>>,
     K |-> <<107>>, L |-> <<108>>, M |-> <<109>>, N |-> <<110>>, O |-> <<111>>,
     P |-> <<112>>, Q |-> <<113>>, R |-> <<114>>, S |-> <<115>>, T |-> <<116>>,
     U |-> <<117>>, V |-> <<118>>, W |-> <<119>>, X |-> <<120>>, Y |-> <<121>>,
     Z |-> <<122>>,
     Quote |-> <<39>>, Comma |-> <<44>>, Minus |-> <<45>>, Period |-> <<46>>,
     Slash |-> <<47>>,
     Num0 |-> <<48>>, Num1 |-> <<49>>, Num2 |-> <<50>>, Num3 |-> <<51>>,
     Num4 |-> <<52>>, Num5 |-> <<53>>, Num6 |-> <<54>>, Num7 |-> <<55>>,
     Num8 |-> <<56>>, Num9 |-> <<57>>,
     Semicolon |-> <<59>>, Equals |-> <<61>>, Backslash |-> <<92>>,
     Backspace |-> <<8, 32, 8>>, Space |-> <<32>>, Return |-> <<LF>>,
     Left |-> <<ESC, 79, 68>>, Right |-> <<ESC, 79, 67>>,
     Down |-> <<ESC, 79, 66>>, Up |-> <<ESC, 79, 65>>]

ShiftKeys == {"LShift", "RShift"}
CtrlKeys == {"LCtrl", "RCtrl"}

\* The keys of the keyboard: those of Keymap, the modifiers, and two of the
\* keys the match leaves to its last arm.
Keycodes == DOMAIN Keymap \cup ShiftKeys \cup CtrlKeys \cup {"LeftBracket", "F1"}

\* if ctrl { if c[0] == b'c' { ch = Some(vec![3]) } }
ctrl_c(ch, ct) == IF ct /\ ch # None /\ ch[1] = 99 THEN <<3>> ELSE ch

\* Event::KeyDown: the modifiers, then the bytes written to the PTY master.
KeyDown(code) ==
    LET ch == IF code \in DOMAIN Keymap THEN Keymap[code] ELSE None
    IN  /\ shift' = (shift \/ code \in ShiftKeys)
        /\ ctrl' = (ctrl \/ code \in CtrlKeys)
        /\ typed' = <<[code |-> code, shift |-> shift', ctrl |-> ctrl',
                       out |-> [i \in 1..Len(ctrl_c(ch, ctrl')) |->
                                   set_shift(ctrl_c(ch, ctrl')[i], shift')]]>>
        /\ UNCHANGED <<csi_buf, screen, sid, report, aborted, fed, pty, start, frame>>

\* Event::KeyUp
KeyUp(code) ==
    /\ shift' = (shift /\ code \notin ShiftKeys)
    /\ ctrl' = (ctrl /\ code \notin CtrlKeys)
    /\ UNCHANGED <<csi_buf, screen, sid, report, aborted, fed, pty, start, frame, typed>>

NextKeys == \E code \in Keycodes : KeyDown(code) \/ KeyUp(code)

SpecKeys == Init /\ [][NextKeys]_vars

\* --------------------------------------------------------------- claims
Last(s) == s[Len(s)]
Printable(b) == 32 <= b /\ b <= 126
InGrid(cur) == 0 <= cur[1] /\ cur[1] < W /\ 0 <= cur[2] /\ cur[2] < H
Row(buf, y) == [x \in 0..(W - 1) |-> buf[x + y * W]]

\* C1: after any sequence of bytes the cursor of each screen is inside the
\* grid, 0 <= cx < W and 0 <= cy < H.
C1_CursorInGrid == \A s \in 0..1 : InGrid(screen[s].cursor)

\* C2: put_char is total: no byte in any parser state aborts the call.
C2_NeverAborts == ~aborted

\* C3: the escape accumulator is empty or starts with ESC.
C3_BufStartsWithEsc == csi_buf = <<>> \/ csi_buf[1] = ESC

C3_Witness == Len(csi_buf) >= 3 /\ csi_buf[2] = 91 /\ Len(fed) > Len(csi_buf)

\* C4: a put_char call that dispatches (a byte of 0x40..0x7F given while
\* the accumulator is non-empty, other than the '[' that opens a CSI) and
\* returns leaves the accumulator empty.
C4_Dispatches ==
    /\ ~aborted
    /\ csi_buf # <<>>
    /\ fed' # fed
    /\ Last(fed') >= 64 /\ Last(fed') <= 127
    /\ ~(Len(csi_buf) = 1 /\ Last(fed') = 91)

C4_DispatchClears == [][(C4_Dispatches /\ ~aborted') => csi_buf' = <<>>]_vars

C4_Witness ==
    /\ fed = <<ESC, 91, 59, 57, 72>>
    /\ ~aborted
    /\ csi_buf = <<>>
    /\ screen[0].cursor = <<8, 0>>

\* C5: N <= W printable bytes fed to a fresh console are stored in cells
\* (0,0)..(N-1,0) in order, every other cell stays empty, and the cursor
\* ends at (N mod W, N div W).
C5_TextFillsRow ==
    (Len(fed) <= W /\ \A i \in 1..Len(fed) : Printable(fed[i])) =>
        /\ ~aborted
        /\ screen[0].buffer = [i \in Cells |-> IF i < Len(fed) THEN fed[i + 1] ELSE NUL]
        /\ screen[0].cursor = <<Len(fed) % W, Len(fed) \div W>>
        /\ screen[1] = Fresh[1]

C5_Witness ==
    /\ Len(fed) = W
    /\ \A i \in 1..Len(fed) : Printable(fed[i])
    /\ fed[1] # fed[W]
    /\ screen[0].cursor = <<0, 1>>

\* A put_char call that performs a newline with the cursor on the last row:
\* LF in Ground, or a byte written in the last column.
C6_Newline ==
    /\ ~aborted
    /\ csi_buf = <<>>
    /\ fed' # fed
    /\ screen[sid].cursor[2] = H - 1
    /\ \/ Last(fed') = LF
       \/ /\ screen[sid].cursor[1] = W - 1
          /\ Last(fed') \notin {ESC, LF, BEL, BS, CR}

\* The active buffer as the newline finds it: with the byte written.
C6_Written ==
    IF Last(fed') = LF THEN screen[sid].buffer
    ELSE [screen[sid].buffer EXCEPT ![W * H - 1] = Last(fed')]

C6_Shifted(blank) ==
    /\ ~aborted'
    /\ \A y \in 0..(H - 2) : Row(screen'[sid].buffer, y) = Row(C6_Written, y + 1)
    /\ Row(screen'[sid].buffer, H - 1) = [x \in 0..(W - 1) |-> blank]
    /\ screen'[sid].cursor = <<0, H - 1>>

C7_Case ==
    /\ Len(fed) = 2
    /\ Printable(fed[1])
    /\ fed[2] = LF
    /\ start[0].cursor = <<W - 1, H - 1>>

\* The buffer before the two bytes, with the printable byte in its cell.
C7_Before == [start[0].buffer EXCEPT ![W * H - 1] = fed[1]]

C8_CupLands ==
    \A r \in 1..H, c \in 1..W, F \in {72, 102} :
        LET seq == <<ESC, 91, 48 + r, 59, 48 + c, F>>
        IN  /\ fed = seq => ~aborted /\ screen[0].cursor = <<c - 1, r - 1>>
            /\ fed = Append(seq, 88) =>
                   ~aborted /\ screen[0].buffer[(c - 1) + (r - 1) * W] = 88

\* C9: a CUP sequence with fewer than two parameters homes the cursor.
C9_ShortCupHomes ==
    fed \in {<<ESC, 91, 72>>, <<ESC, 91, 50, 72>>} =>
        ~aborted /\ screen[0].cursor = <<0, 0>>

\* C10: ESC[6n returns ESC [ cy+1 ; cx+1 R and changes no cell and no
\* cursor; an 'n' sequence with another parameter, and a byte that does not
\* complete an 'n' sequence, return nothing.
C10_CursorReport ==
    /\ fed = <<ESC, 91, 54, 110>> =>
           /\ ~aborted
           /\ report = <<ESC, 91, 49 + start[0].cursor[2], 59,
                         49 + start[0].cursor[1], 82>>
           /\ screen = start
    /\ fed \in {<<ESC, 91, 53, 110>>, <<ESC, 91, 110>>, <<110>>} =>
           ~aborted /\ report = None
    /\ (fed = <<>> \/ Last(fed) # 110) => report = None

C10_Witness ==
    /\ fed = <<ESC, 91, 54, 110>>
    /\ start[0].cursor = <<2, 1>>
    /\ report = <<ESC, 91, 50, 59, 51, 82>>

\* The sequence a put_char call completes: the accumulator with the byte.
Completed == IF Last(fed') = ESC THEN <<ESC>> ELSE Append(csi_buf, Last(fed'))

\* C11: sid is 0 or 1; a call sets it to 1 exactly when the sequence it
\* completes is ESC[?1049h and to 0 exactly when it is ESC[?1049l, and no
\* other call changes it; the switch itself changes no cell and no cursor,
\* and while the alternate screen is active the primary one is not written.
C11_AltScreen ==
    [][(~aborted /\ fed' # fed) =>
          /\ sid' \in 0..1
          /\ sid' = (IF Completed = EnterAlt THEN 1
                     ELSE IF Completed = LeaveAlt THEN 0 ELSE sid)
          /\ Completed \in {EnterAlt, LeaveAlt} => ~aborted' /\ screen' = screen
          /\ sid = 1 => screen'[0] = screen[0]]_vars

C11_Witness ==
    /\ fed = EnterAlt \o <<88>> \o LeaveAlt \o <<89>>
    /\ start[0].buffer = Marked
    /\ start[0].cursor = <<1, 1>>
    /\ sid = 0
    /\ screen[1].buffer[0] = 88
    /\ screen[0].buffer = [Marked EXCEPT ![1 + W] = 89]

\* The cells of row cy that ESC[pK erases with the cursor at (cx, cy).
C12_Erased(p, cx, cy) ==
    {x + cy * W : x \in (CASE p = 0 -> cx..(W - 1)
                          [] p = 1 -> 0..cx
                          [] p = 2 -> 0..(W - 1)
                          [] OTHER -> {})}

\* C12: ESC[pK at (cx, cy) sets to space exactly the cells of row cy in
\* columns [cx, W) for p = 0 or no parameter, [0, cx] for p = 1, [0, W) for
\* p = 2 and none for another p; every other cell and the cursor are
\* unchanged.
C12_EraseLine ==
    \A p \in 0..3 :
        (fed = <<ESC, 91, 48 + p, 75>> \/ (p = 0 /\ fed = <<ESC, 91, 75>>)) =>
            /\ ~aborted
            /\ screen[0].cursor = start[0].cursor
            /\ screen[0].buffer =
                   [i \in Cells |->
                       IF i \in C12_Erased(p, start[0].cursor[1], start[0].cursor[2])
                       THEN SP ELSE start[0].buffer[i]]
            /\ screen[1] = start[1]

C12_Witness ==
    /\ fed = <<ESC, 91, 49, 75>>
    /\ start[0].buffer = Marked
    /\ start[0].cursor = <<1, 1>>
    /\ screen[0].cursor = <<1, 1>>
    /\ screen[0].buffer = [Marked EXCEPT ![W] = SP, ![W + 1] = SP]

\* C13: the operand of A, B, C, D, J, K and n is the first ';'-separated
\* field of the parameter bytes: ESC[5;3A moves the cursor up by 5 and
\* ESC[2;1C moves it right by 2, clamped to the grid.
C13_FirstField ==
    /\ fed = <<ESC, 91, 53, 59, 51, 65>> =>
           /\ ~aborted
           /\ screen[0].cursor = <<start[0].cursor[1], Max(start[0].cursor[2] - 5, 0)>>
    /\ fed = <<ESC, 91, 50, 59, 49, 67>> =>
           /\ ~aborted
           /\ screen[0].cursor = <<Min(start[0].cursor[1] + 2, W - 1), start[0].cursor[2]>>

\* C14: whenever the loop renders, every byte that was readable in the PTY
\* has been read and fed: no render happens between two bytes that were
\* readable together.
C14_RenderAfterDrain == \A i \in 1..Len(frame) : frame[i].left = 0

\* The ctrl transform of the key map.
C15_Ctrl(b) ==
    CASE 97 <= b /\ b <= 122 -> b - 96
      [] b = 91 -> 27
      [] b = 92 -> 28
      [] b = 93 -> 29
      [] b = 94 -> 30
      [] b = 95 -> 31
      [] OTHER -> b

\* C15: for a key mapped to one byte, the byte written to the PTY is the
\* shift transform of the mapped byte and, with ctrl held, the ctrl
\* transform of that.
C15_CtrlAfterShift ==
    \A i \in 1..Len(typed) :
        LET t == typed[i]
            b == set_shift(Keymap[t.code][1], t.shift)
        IN  (t.code \in DOMAIN Keymap /\ Len(Keymap[t.code]) = 1) =>
                t.out = <<IF t.ctrl THEN C15_Ctrl(b) ELSE b>>

\* C16: for n in 1..2*max(W,H), ESC[nA, ESC[nB, ESC[nC and ESC[nD move the
\* cursor n cells up, down, right and left, stopping at the edge of the
\* grid; the other coordinate and every cell are unchanged.
C16_RelativeMoves ==
    \A n \in 1..(2 * Max(W, H)), F \in {65, 66, 67, 68} :
        fed = <<ESC, 91>> \o Digits(n) \o <<F>> =>
            LET cx == start[0].cursor[1]
                cy == start[0].cursor[2]
            IN  /\ ~aborted
                /\ screen[0].cursor =
                       (CASE F = 65 -> <<cx, Max(cy - n, 0)>>
                          [] F = 66 -> <<cx, Min(cy + n, H - 1)>>
                          [] F = 67 -> <<Min(cx + n, W - 1), cy>>
                          [] F = 68 -> <<Max(cx - n, 0), cy>>)
                /\ screen[0].buffer = start[0].buffer
                /\ screen[1] = start[1]

C16_Witness ==
    /\ fed = <<ESC, 91, 50, 68>>
    /\ start[0].cursor = <<1, 1>>
    /\ start[0].buffer = Marked
    /\ screen[0].cursor = <<0, 1>>

\* C17: in Ground, CR sets cx to 0, BS decrements cx when cx > 0 and does
\* nothing otherwise, BEL changes nothing; none of them changes cy or a
\* cell.
C17_Controls ==
    [][(~aborted /\ csi_buf = <<>> /\ fed' # fed /\ Last(fed') \in {CR, BS, BEL}) =>
          LET cx == screen[sid].cursor[1]
              cy == screen[sid].cursor[2]
          IN  /\ ~aborted'
              /\ screen'[sid].cursor =
                     (CASE Last(fed') = CR -> <<0, cy>>
                        [] Last(fed') = BS -> <<Max(cx - 1, 0), cy>>
                        [] Last(fed') = BEL -> <<cx, cy>>)
              /\ screen'[sid].buffer = screen[sid].buffer
              /\ sid' = sid]_vars

\* C18: in the Escape state (the accumulator is ESC alone) a byte other
\* than '[' returns the parser to Ground; a byte of 0x40..0x7E is dropped as
\* an unrecognised sequence: no cell, cursor or sid changes and nothing is
\* returned.
C18_EscapeByte ==
    [][(~aborted /\ csi_buf = <<ESC>> /\ fed' # fed /\ Last(fed') \notin {ESC, 91}) =>
          /\ ~aborted'
          /\ csi_buf' = <<>>
          /\ (64 <= Last(fed') /\ Last(fed') <= 126) =>
                 screen' = screen /\ sid' = sid /\ report' = None]_vars

\* A call that completes a CSI sequence (ESC [, bytes of 0x20..0x3F, a final
\* byte of 0x40..0x7E) the console has no action for.
C19_Case ==
    /\ ~aborted
    /\ fed' # fed
    /\ Len(csi_buf) >= 2 /\ csi_buf[1] = ESC /\ csi_buf[2] = 91
    /\ \A i \in 3..Len(csi_buf) : 32 <= csi_buf[i] /\ csi_buf[i] <= 63
    /\ 64 <= Last(fed') /\ Last(fed') <= 126
    /\ \/ Last(fed') \notin {65, 66, 67, 68, 72, 102, 74, 75, 110, 104, 108}
       \/ Last(fed') = 104 /\ Completed # EnterAlt
       \/ Last(fed') = 108 /\ Completed # LeaveAlt

\* C19: a CSI sequence with final byte 'm', with a final byte outside
\* A B C D H f J K n h l, or with 'h' or 'l' and not ESC[?1049h / ESC[?1049l,
\* changes no cell, no cursor and not sid, returns nothing and leaves the
\* parser in Ground: a printable byte fed next is written at the unchanged
\* cursor.
C19_Ignored ==
    [][/\ C19_Case =>
             /\ ~aborted'
             /\ screen' = screen
             /\ sid' = sid
             /\ report' = None
             /\ csi_buf' = <<>>
       /\ fed' \in {q \o <<88>> : q \in Unhandled} =>
             LET cx == start[0].cursor[1]
                 cy == start[0].cursor[2]
             IN  /\ ~aborted'
                 /\ screen'[1] = start[1]
                 /\ IF cx = W - 1 /\ cy = H - 1
                    \* written in the last cell, which scrolls the screen
                    THEN screen'[0].buffer[W * (H - 1) - 1] = 88
                    ELSE screen'[0].buffer =
                             [start[0].buffer EXCEPT ![cx + cy * W] = 88]]_vars

C19_Witness ==
    /\ fed = <<ESC, 91, 49, 59, 51, 49, 109, 88>>
    /\ start[0].cursor = <<1, 1>>
    /\ start[0].buffer = Marked
    /\ csi_buf = <<>>
    /\ screen[0].buffer = [Marked EXCEPT ![1 + W] = 88]
    /\ screen[0].cursor = <<2, 1>>

\* C20: in the CSI state a byte that is neither a parameter byte
\* (0x30..0x3F) nor a final byte (0x40..0x7E) is appended to the
\* accumulator and nothing else happens: no dispatch, no change of a cell,
\* a cursor or sid, nothing returned.
C20_Swallowed ==
    [][(/\ ~aborted
        /\ fed' # fed
        /\ Len(csi_buf) >= 2 /\ csi_buf[1] = ESC /\ csi_buf[2] = 91
        /\ Last(fed') # ESC
        /\ ~(48 <= Last(fed') /\ Last(fed') <= 126)) =>
          /\ ~aborted'
          /\ csi_buf' = Append(csi_buf, Last(fed'))
          /\ screen' = screen
          /\ sid' = sid
          /\ report' = None]_vars

\* C21: every cell of both buffers holds 0 (empty) or a printable ASCII
\* byte 0x20..0x7E: no control byte and no byte >= 0x7F is ever stored.
C21_CellsPrintable ==
    \A sc \in 0..1, i \in Cells :
        screen[sc].buffer[i] = NUL \/ Printable(screen[sc].buffer[i])

\* C22: a put_char call leaves the cells and the cursor of the screen that
\* is inactive when it is called (1 - sid) unchanged, and a call that
\* switches screens changes no cell and no cursor of either.
C22_InactiveUntouched ==
    [][(~aborted /\ fed' # fed) =>
          /\ screen'[1 - sid] = screen[1 - sid]
          /\ sid' # sid => screen' = screen]_vars

C22_Witness ==
    /\ fed = EnterAlt \o <<ESC, 91, 63, 49, 108, 88, LF>>
    /\ sid = 1
    /\ start[0].buffer = Marked
    /\ start[0].cursor = <<2, 1>>
    /\ screen[0] = start[0]
    /\ screen[1].buffer[0] = 88
    /\ screen[1].cursor = <<0, 1>>

\* C23: ESC given while the accumulator is non-empty discards the partial
\* sequence without dispatching it: no cell, cursor or sid changes, nothing
\* is returned and the accumulator becomes exactly ESC, so that the bytes
\* that follow start a new sequence.
C23_EscRestarts ==
    [][(~aborted /\ csi_buf # <<>> /\ fed' # fed /\ Last(fed') = ESC) =>
          /\ ~aborted'
          /\ csi_buf' = <<ESC>>
          /\ screen' = screen
          /\ sid' = sid
          /\ report' = None]_vars

C23_Witness ==
    /\ fed = <<ESC, 91, 57, ESC, 91>>
    /\ ~aborted
    /\ csi_buf = <<ESC, 91>>
    /\ screen = Fresh

\* C24: relative motion adds without 32-bit overflow: ESC[2147483647C and
\* ESC[2147483647B from any cursor end at column W-1 and row H-1, neither
\* wrapped nor aborted, and a parameter of 2^31 falls back to the default 1.
C24_NoOverflow ==
    \A F \in {66, 67} :
        LET cx == start[0].cursor[1]
            cy == start[0].cursor[2]
        IN  /\ fed = <<ESC, 91>> \o MaxDigits \o <<F>> =>
                   /\ ~aborted
                   /\ screen[0].cursor = (IF F = 67 THEN <<W - 1, cy>> ELSE <<cx, H - 1>>)
            /\ fed = <<ESC, 91>> \o OverDigits \o <<F>> =>
                   /\ ~aborted
                   /\ screen[0].cursor = (IF F = 67 THEN <<Min(cx + 1, W - 1), cy>>
                                          ELSE <<cx, Min(cy + 1, H - 1)>>)

====
